---- MODULE Spec2Model ----
(***************************************************************************)
(* EmbedLog: the logging engine of src/src/EmbedLog.cpp and                *)
(* src/include/EmbedLog/EmbedLog.hpp as a state machine.                   *)
(*                                                                         *)
(* The engine's state is isOpen, logLevel and throttleMap.  The injected   *)
(* collaborators (openFunc, closeFunc, microsecondFunc, printFunc) are the *)
(* environment: the hooks' results and the clock's readings are inputs,    *)
(* the clock being non-decreasing; what is handed to printFunc is recorded *)
(* per call in lastCall.                                                   *)
(*                                                                         *)
(* uint64_t and uint32_t values are kept as little-endian sequences of     *)
(* 16-bit limbs, so that the arithmetic has the width it has in the code.  *)
(* Strings are sequences of one-character strings.                         *)
(***************************************************************************)
EXTENDS Integers, Sequences, FiniteSets, TLC

\* ------------------------------------------------------------------------
\* Fixed-width unsigned arithmetic
\* ------------------------------------------------------------------------

\* One limb holds 16 bits.
Base == 2^16

\* uint64_t: four limbs, least significant first.
Zero64 == <<0, 0, 0, 0>>

\* The uint64_t of a small non-negative integer n (n < 2^31).
U64(n) == <<n % Base, n \div Base, 0, 0>>

\* a + b modulo 2^64.
Add64(a, b) ==
    LET s1 == a[1] + b[1]
        s2 == a[2] + b[2] + (s1 \div Base)
        s3 == a[3] + b[3] + (s2 \div Base)
        s4 == a[4] + b[4] + (s3 \div Base)
    IN  <<s1 % Base, s2 % Base, s3 % Base, s4 % Base>>

\* a - b modulo 2^64 (unsigned subtraction: wraps when a < b).
Sub64(a, b) ==
    LET d1 == a[1] - b[1]
        w1 == IF d1 < 0 THEN 1 ELSE 0
        d2 == a[2] - b[2] - w1
        w2 == IF d2 < 0 THEN 1 ELSE 0
        d3 == a[3] - b[3] - w2
        w3 == IF d3 < 0 THEN 1 ELSE 0
        d4 == a[4] - b[4] - w3
    IN  <<d1 % Base, d2 % Base, d3 % Base, d4 % Base>>

\* a * m modulo 2^64, for a small multiplier m (m < 2^15).
MulSmall64(a, m) ==
    LET p1 == a[1] * m
        p2 == a[2] * m + (p1 \div Base)
        p3 == a[3] * m + (p2 \div Base)
        p4 == a[4] * m + (p3 \div Base)
    IN  <<p1 % Base, p2 % Base, p3 % Base, p4 % Base>>

\* a > b on uint64_t.
Gt64(a, b) ==
    \/ a[4] > b[4]
    \/ a[4] = b[4] /\ a[3] > b[3]
    \/ a[4] = b[4] /\ a[3] = b[3] /\ a[2] > b[2]
    \/ a[4] = b[4] /\ a[3] = b[3] /\ a[2] = b[2] /\ a[1] > b[1]

\* a <= b on uint64_t.
Le64(a, b) == ~Gt64(a, b)

\* a / d on uint64_t, for a small divisor d (0 < d < 2^15): long division.
DivSmall64(a, d) ==
    LET q4 == a[4] \div d
        r4 == a[4] % d
        q3 == (r4 * Base + a[3]) \div d
        r3 == (r4 * Base + a[3]) % d
        q2 == (r3 * Base + a[2]) \div d
        r2 == (r3 * Base + a[2]) % d
        q1 == (r2 * Base + a[1]) \div d
    IN  <<q1, q2, q3, q4>>

\* a % d on uint64_t, for a small divisor d (0 < d < 2^15), as an integer.
ModSmall64(a, d) ==
    LET r4 == a[4] % d
        r3 == (r4 * Base + a[3]) % d
        r2 == (r3 * Base + a[2]) % d
    IN  (r2 * Base + a[1]) % d

\* The conversion uint32_t -> uint64_t of the low 32 bits of a.
Low32(a) == <<a[1], a[2], 0, 0>>

\* throttle_ms * 1000 as the code computes it: throttle_ms is uint32_t and
\* 1000 is int, so the product is an unsigned 32-bit value (modulo 2^32),
\* converted to uint64_t for the comparison.
IntervalMicros(throttle_ms) == Low32(MulSmall64(U64(throttle_ms), 1000))

\* ------------------------------------------------------------------------
\* Severities and text
\* ------------------------------------------------------------------------

\* enum LogLevel { INFO, WARNING, ERROR, DEBUG, NONE }
INFO == 0
WARNING == 1
ERROR == 2
DEBUG == 3
NONE == 4

LogLevel == {INFO, WARNING, ERROR, DEBUG, NONE}

\* The line terminator and the character std::string::operator[] yields at
\* index size().
NL == "\n"
NUL == "\\0"

getLogLevelString(level) ==
    CASE level = INFO -> <<"I", "N", "F", "O">>
      [] level = WARNING -> <<"W", "A", "R", "N", "I", "N", "G">>
      [] level = ERROR -> <<"E", "R", "R", "O", "R">>
      [] level = DEBUG -> <<"D", "E", "B", "U", "G">>
      [] level = NONE -> <<"N", "O", "N", "E">>
      [] OTHER -> <<"U", "N", "K", "N", "O", "W", "N">>

DigitChar(d) == <<"0", "1", "2", "3", "4", "5", "6", "7", "8", "9">>[d + 1]

\* operator<< of a uint64_t: its decimal digits, most significant first.
RECURSIVE Decimal64(_)
Decimal64(x) ==
    IF x = Zero64 \/ (DivSmall64(x, 10) = Zero64)
    THEN <<DigitChar(ModSmall64(x, 10))>>
    ELSE Append(Decimal64(DivSmall64(x, 10)), DigitChar(ModSmall64(x, 10)))

\* std::setfill('0') << std::setw(w) << x: the digits of x, padded on the
\* left with '0' to at least w characters.
RECURSIVE PadLeft(_, _)
PadLeft(digits, w) ==
    IF Len(digits) >= w THEN digits ELSE PadLeft(<<"0">> \o digits, w)

SetwFill0(w, x) == PadLeft(Decimal64(x), w)

\* The fields print() computes from the clock reading.
totalSeconds(microseconds) == DivSmall64(DivSmall64(microseconds, 1000), 1000)
remainingMicroseconds(microseconds) ==
    ModSmall64(DivSmall64(microseconds, 1000), 1000) * 1000
        + ModSmall64(microseconds, 1000)
\* An hour count taken modulo 60 minutes' worth of seconds too early: the
\* hours are computed from the seconds left after the whole minutes.
hours_OfRemainder(microseconds) ==
    DivSmall64(U64(ModSmall64(totalSeconds(microseconds), 60)), 3600)

hours(microseconds) == DivSmall64(totalSeconds(microseconds), 3600)
minutes(microseconds) == ModSmall64(totalSeconds(microseconds), 3600) \div 60
seconds(microseconds) == ModSmall64(totalSeconds(microseconds), 60)

\* A switch whose default case appends the character alone, without the '%'.
Token_DropsPercent(c, level, name, message, microseconds) ==
    CASE c = "N" -> name
      [] c = "L" -> getLogLevelString(level)
      [] c = "T" -> message
      [] c = "D" -> SetwFill0(2, DivSmall64(hours(microseconds), 24))
      [] c = "H" -> SetwFill0(2, U64(ModSmall64(hours(microseconds), 24)))
      [] c = "M" -> SetwFill0(2, U64(minutes(microseconds)))
      [] c = "S" -> SetwFill0(2, U64(seconds(microseconds)))
      [] c = "U" -> SetwFill0(6, U64(remainingMicroseconds(microseconds)))
      [] OTHER -> <<c>>

\* What one switch case of print() appends for the character c after '%'.
Token(c, level, name, message, microseconds) ==
    CASE c = "N" -> name
      [] c = "L" -> getLogLevelString(level)
      [] c = "T" -> message
      [] c = "D" -> SetwFill0(2, DivSmall64(hours(microseconds), 24))
      [] c = "H" -> SetwFill0(2, U64(ModSmall64(hours(microseconds), 24)))
      [] c = "M" -> SetwFill0(2, U64(minutes(microseconds)))
      [] c = "S" -> SetwFill0(2, U64(seconds(microseconds)))
      [] c = "U" -> SetwFill0(6, U64(remainingMicroseconds(microseconds)))
      [] OTHER -> <<"%", c>>

\* format[i] for 1 <= i <= size + 1 (1-based): the character at size + 1 is
\* the string's terminating null character.
CharAt(format, i) == IF i <= Len(format) THEN format[i] ELSE NUL

\* The for loop of print() from index i on (1-based).
RECURSIVE Scan(_, _, _, _, _, _)
Scan(format, i, level, name, message, microseconds) ==
    IF i > Len(format) THEN <<>>
    ELSE IF format[i] = "%"
         THEN Token(CharAt(format, i + 1), level, name, message, microseconds)
                  \o Scan(format, i + 2, level, name, message, microseconds)
         ELSE <<format[i]>>
                  \o Scan(format, i + 1, level, name, message, microseconds)

\* The line print() hands to printFunc.
RenderLine(format, level, name, message, microseconds) ==
    Scan(format, 1, level, name, message, microseconds) \o <<NL>>

\* ------------------------------------------------------------------------
\* Bounds of the model: the inputs the operations are called with
\* ------------------------------------------------------------------------

\* Clock readings are multiples of 1000 microseconds up to MaxTick * 1000, and
\* one far reading.
MaxTick == 2

\* The throttle interval whose product with 1000 first passes 2^32:
\* 4294968 * 1000 = 2^32 + 704.
WrapMs == 4294968

\* 1000 microseconds + WrapMs / 2 milliseconds.
FarClock == Add64(U64(1000), MulSmall64(U64(WrapMs \div 2), 1000))

ClockValues == {U64(1000 * t) : t \in 0 .. MaxTick} \cup {FarClock}

Keys == {42, 7}

Intervals == {1, WrapMs}

Contents == {<<"a">>, <<"b">>}

\* "[%H:%M:%S.%U %N %L] %T"
Templates ==
    { <<"[", "%", "H", ":", "%", "M", ":", "%", "S", ".", "%", "U", " ",
        "%", "N", " ", "%", "L", "]", " ", "%", "T">> }

Names == {<<"d", "e", "v">>}

\* ------------------------------------------------------------------------
\* The engine
\* ------------------------------------------------------------------------

VARIABLES
    isOpen,       \* bool isOpen
    logLevel,     \* LogLevel logLevel
    throttleMap,  \* ThrottleMap throttleMap: the keys present and their values
    name,         \* std::string name
    format,       \* the template print() scans
    clock,        \* the last reading microsecondFunc returned
    alive,        \* FALSE once the destructor has run
    lastEmit,     \* history: per key, the reading `now` of the last
                  \* log_throttled call of that key that reached printFunc
    lastCall,     \* the operation that has just run: its arguments, the state
                  \* it found and what it did to the collaborators
    prevCall,     \* history: the operation before it (kept under SpecPair)
    openedOk      \* history: some open() call's openFunc has returned true

vars ==
    <<isOpen, logLevel, throttleMap, name, format, clock, alive, lastEmit,
      lastCall, prevCall, openedOk>>

\* The readings microsecondFunc can return next: it is non-decreasing.
ReadingsFrom(t) == {v \in ClockValues : Le64(t, v)}
Readings == ReadingsFrom(clock)

\* The engine's fields as an operation finds them.
Fields ==
    [isOpen |-> isOpen, logLevel |-> logLevel, throttleMap |-> throttleMap,
     lastEmit |-> lastEmit]

NoLevel == 0 - 1
NoKey == 0 - 1
NoMs == 0 - 1

\* No operation has run since the host took the last one's result.
NoCall == [op |-> "none"]

\* The record of one operation.  sink holds the lines handed to printFunc,
\* reads the readings taken from microsecondFunc, hooks the results openFunc
\* or closeFunc returned to it, ret the value it returned.
Call(op, level, id, ms, content, reads, sink, hooks, ret) ==
    [op |-> op, level |-> level, id |-> id, ms |-> ms, content |-> content,
     pre |-> Fields, reads |-> reads, sink |-> sink, hooks |-> hooks,
     ret |-> ret]

\* ThrottleMap::operator[] as an rvalue: the value of the key, 0 for a key
\* that is absent.
MapGet(map, id) == IF id \in DOMAIN map THEN map[id] ELSE Zero64

\* ThrottleMap::operator[] inserts a value-initialised entry for a key that
\* is absent.
MapTouch(map, id) == IF id \in DOMAIN map THEN map ELSE map @@ (id :> Zero64)

\* One time shared by all keys: the assignment restarts every window.
MapPut_AllKeys(map, id, now) == [k \in DOMAIN map \cup {id} |-> now]

\* throttleMap[throttle_id] = now
MapPut(map, id, now) ==
    [k \in DOMAIN map \cup {id} |-> IF k = id THEN now ELSE map[k]]

\* The open test left out.
NotOpen_Never(open) == FALSE

\* if (!isOpen) return;
NotOpen(open) == ~open

\* The level test made strict: level <= logLevel drops the message.
LevelPasses_Strict(level, threshold) == level > threshold

\* level < logLevel is false
LevelPasses(level, threshold) == level >= threshold

\* now - last > throttle_ms * 1000
IntervalElapsed(now, last, throttle_ms) ==
    Gt64(Sub64(now, last), IntervalMicros(throttle_ms))

\* A suppressed attempt that restarts the window of its key.
Suppressed_Refresh(map, id, now) == MapPut(map, id, now)

\* The table after a log_throttled call that read it at `now` and found the
\* interval not elapsed: the lookup alone has touched it.
Suppressed(map, id, now) == MapTouch(map, id)

\* An accepted call that does not write the reading back.
Accepted_NoWrite(map, id, now) == MapTouch(map, id)

\* An accepted call that stores the end of a fixed window of 1000
\* microseconds instead of the reading.
Accepted_StoresAhead(map, id, now) ==
    MapPut(MapTouch(map, id), id, Add64(now, U64(1000)))

\* The table after a log_throttled call that went through at `now`.
Accepted(map, id, now) == MapPut(MapTouch(map, id), id, now)

\* vsnprintf(nullptr, 0, format, args) for a format without conversion
\* specifications: the number of characters of the text.
FormattedSize(fmt) == Len(fmt)

\* vsnprintf(buffer, size + 1, format, args) for such a format: the text.
Formatted(fmt) == fmt

\* ss << var1 << ... << "\n" of the header's log().
Streamed(content) == content \o <<NL>>

\* The engine as EmbedLog::EmbedLog leaves it.  The constructor of
\* EmbedLog.cpp does not initialise logLevel (the header's declaration
\* defaults it to INFO): it starts at any level.
Init ==
    /\ isOpen = FALSE
    /\ logLevel \in LogLevel
    /\ throttleMap = <<>>
    /\ name \in Names
    /\ format \in Templates
    /\ clock = Zero64
    /\ alive = TRUE
    /\ lastEmit = <<>>
    /\ lastCall = NoCall
    /\ prevCall = NoCall
    /\ openedOk = FALSE

\* The host can call the engine: it is alive and the last call has returned.
Ready == alive /\ lastCall = NoCall

\* open() that takes openFunc's result whatever the state.
OpenState_Always(wasOpen, r) == r

\* The value isOpen takes in open(): openFunc's result r when it was closed.
OpenState(wasOpen, r) == IF ~wasOpen THEN r ELSE wasOpen

\* bool EmbedLog::open(), openFunc returning r when it is called.
open(r) ==
    /\ Ready
    /\ isOpen' = OpenState(isOpen, r)
    /\ lastCall' = Call("open", NoLevel, NoKey, NoMs, <<>>, <<>>, <<>>,
                        IF ~isOpen THEN <<r>> ELSE <<>>, OpenState(isOpen, r))
    /\ openedOk' = (openedOk \/ (~isOpen /\ r))
    /\ UNCHANGED <<logLevel, throttleMap, name, format, clock, alive, lastEmit,
                   prevCall>>

\* close() that marks the engine closed whatever closeFunc reported.
CloseState_Asserts(result) == FALSE

\* The value isOpen takes in close(): the negation of closeFunc's result.
CloseState(result) == ~result

\* bool EmbedLog::close(), closeFunc returning r.
close(r) ==
    /\ Ready
    /\ isOpen' = CloseState(r)
    /\ lastCall' = Call("close", NoLevel, NoKey, NoMs, <<>>, <<>>, <<>>, <<r>>, r)
    /\ UNCHANGED <<logLevel, throttleMap, name, format, openedOk, clock, alive, lastEmit,
                   prevCall>>

\* void EmbedLog::setLogLevel(LogLevel level)
setLogLevel(level) ==
    /\ Ready
    /\ logLevel' = level
    /\ lastCall' = Call("setLogLevel", level, NoKey, NoMs, <<>>, <<>>, <<>>,
                        <<>>, FALSE)
    /\ UNCHANGED <<isOpen, throttleMap, name, format, openedOk, clock, alive, lastEmit,
                   prevCall>>

\* A destructor that never calls closeFunc.
DestructorCloses_Never(wasOpen, r) == <<>>

\* The results closeFunc returns to the destructor: it is called, once, when
\* the engine is open.
DestructorCloses(wasOpen, r) == IF wasOpen THEN <<r>> ELSE <<>>

\* EmbedLog::~EmbedLog(), closeFunc returning r when it is called: its result
\* is dropped and isOpen is not written.
Destructor(r) ==
    /\ Ready
    /\ alive' = FALSE
    /\ lastCall' = Call("destructor", NoLevel, NoKey, NoMs, <<>>, <<>>, <<>>,
                        DestructorCloses(isOpen, r), FALSE)
    /\ UNCHANGED <<isOpen, logLevel, throttleMap, name, format, openedOk, clock, lastEmit,
                   prevCall>>

\* A log call that returns without touching the engine or a collaborator.
Dropped(op, level, id, ms, content) ==
    /\ lastCall' = Call(op, level, id, ms, content, <<>>, <<>>, <<>>, FALSE)
    /\ UNCHANGED <<isOpen, logLevel, throttleMap, name, format, openedOk, clock, alive,
                   lastEmit, prevCall>>

\* void EmbedLog::print(LogLevel level, const std::string& message), reading
\* ts from the clock, as the tail of the log call `op`.
print(op, level, id, ms, content, message, reads, ts) ==
    /\ clock' = ts
    /\ lastCall' = Call(op, level, id, ms, content, Append(reads, ts),
                        <<RenderLine(format, level, name, message, ts)>>,
                        <<>>, FALSE)
    /\ UNCHANGED <<isOpen, logLevel, name, format, openedOk, alive, prevCall>>

\* A log_throttled call that returns after reading the clock at `now`,
\* leaving the table as `map`, without calling print().
Silent(op, level, id, ms, content, now, map) ==
    /\ throttleMap' = map
    /\ clock' = now
    /\ lastCall' = Call(op, level, id, ms, content, <<now>>, <<>>, <<>>, FALSE)
    /\ UNCHANGED <<isOpen, logLevel, name, format, openedOk, alive, lastEmit, prevCall>>

\* void EmbedLog::log(LogLevel level, const std::string& format, ...) of
\* EmbedLog.cpp.
log(level, fmt) ==
    /\ Ready
    /\ IF NotOpen(isOpen) THEN Dropped("log", level, NoKey, NoMs, fmt)
       ELSE IF ~LevelPasses(level, logLevel)
            THEN Dropped("log", level, NoKey, NoMs, fmt)
       ELSE IF FormattedSize(fmt) < 0
            THEN Dropped("log", level, NoKey, NoMs, fmt)
       ELSE \E ts \in Readings :
            /\ print("log", level, NoKey, NoMs, fmt, Formatted(fmt), <<>>, ts)
            /\ UNCHANGED <<throttleMap, lastEmit>>

\* template log(LogLevel level, T var1, Types... var2) of EmbedLog.hpp.
log_hpp(level, content) ==
    /\ Ready
    /\ IF NotOpen(isOpen) THEN Dropped("log_hpp", level, NoKey, NoMs, content)
       ELSE IF ~LevelPasses(level, logLevel)
            THEN Dropped("log_hpp", level, NoKey, NoMs, content)
       ELSE \E ts \in Readings :
            /\ print("log_hpp", level, NoKey, NoMs, content, Streamed(content),
                     <<>>, ts)
            /\ UNCHANGED <<throttleMap, lastEmit>>

\* void EmbedLog::log_throttled(size_t throttle_id, uint32_t throttle_ms,
\* LogLevel level, const std::string& format, ...) of EmbedLog.cpp.
log_throttled(id, ms, level, fmt) ==
    /\ Ready
    /\ IF NotOpen(isOpen) THEN Dropped("log_throttled", level, id, ms, fmt)
       ELSE IF ~LevelPasses(level, logLevel)
            THEN Dropped("log_throttled", level, id, ms, fmt)
       ELSE \E now \in Readings :
            IF ~IntervalElapsed(now, MapGet(throttleMap, id), ms)
            THEN Silent("log_throttled", level, id, ms, fmt, now,
                        Suppressed(throttleMap, id, now))
            ELSE IF FormattedSize(fmt) < 0
            THEN Silent("log_throttled", level, id, ms, fmt, now,
                        MapTouch(throttleMap, id))
            ELSE \E ts \in ReadingsFrom(now) :
                 /\ print("log_throttled", level, id, ms, fmt, Formatted(fmt),
                          <<now>>, ts)
                 /\ throttleMap' = Accepted(throttleMap, id, now)
                 /\ lastEmit' = MapPut(lastEmit, id, now)

\* template log_throttled(size_t throttle_id, LogLevel level,
\* uint32_t throttle_ms, T var1, Types... var2) of EmbedLog.hpp: the level is
\* tested by the log() it calls, after the interval, and the table is
\* written whatever that log() did.
log_throttled_hpp(id, level, ms, content) ==
    /\ Ready
    /\ IF NotOpen(isOpen)
       THEN Dropped("log_throttled_hpp", level, id, ms, content)
       ELSE \E now \in Readings :
            IF ~IntervalElapsed(now, MapGet(throttleMap, id), ms)
            THEN Silent("log_throttled_hpp", level, id, ms, content, now,
                        Suppressed(throttleMap, id, now))
            ELSE IF ~LevelPasses(level, logLevel)
            THEN Silent("log_throttled_hpp", level, id, ms, content, now,
                        Accepted(throttleMap, id, now))
            ELSE \E ts \in ReadingsFrom(now) :
                 /\ print("log_throttled_hpp", level, id, ms, content,
                          Streamed(content), <<now>>, ts)
                 /\ throttleMap' = Accepted(throttleMap, id, now)
                 /\ lastEmit' = MapPut(lastEmit, id, now)

\* The host takes the result of the operation and goes on.
Return ==
    /\ lastCall # NoCall
    /\ lastCall' = NoCall
    /\ UNCHANGED <<isOpen, logLevel, throttleMap, name, format, openedOk, clock, alive,
                   lastEmit, prevCall>>

Next ==
    \/ Return
    \/ \E r \in BOOLEAN : open(r)
    \/ \E r \in BOOLEAN : close(r)
    \/ \E level \in LogLevel : setLogLevel(level)
    \/ \E level \in LogLevel, fmt \in Contents : log(level, fmt)
    \/ \E level \in LogLevel, content \in Contents : log_hpp(level, content)
    \/ \E id \in Keys, ms \in Intervals, level \in LogLevel, fmt \in Contents :
           log_throttled(id, ms, level, fmt)
    \/ \E id \in Keys, ms \in Intervals, level \in LogLevel, content \in Contents :
           log_throttled_hpp(id, level, ms, content)
    \/ \E r \in BOOLEAN : Destructor(r)

Spec == Init /\ [][Next]_vars

\* ------------------------------------------------------------------------
\* Two calls in a row: the same operations, the host keeping the record of
\* the call before the last one.  The engine is constructed with the
\* header's default threshold and the calls are made at one severity.
\* ------------------------------------------------------------------------

PairLevels == {ERROR}

InitPair == Init /\ logLevel = INFO

\* The host takes the result of the operation, keeps it, and goes on.
ReturnKeep ==
    /\ lastCall # NoCall
    /\ prevCall' = lastCall
    /\ lastCall' = NoCall
    /\ UNCHANGED <<isOpen, logLevel, throttleMap, name, format, openedOk, clock, alive,
                   lastEmit>>

NextPair ==
    \/ ReturnKeep
    \/ \E r \in BOOLEAN : open(r)
    \/ \E r \in BOOLEAN : close(r)
    \/ \E level \in PairLevels, fmt \in Contents : log(level, fmt)
    \/ \E level \in PairLevels, content \in Contents : log_hpp(level, content)
    \/ \E id \in Keys, ms \in Intervals, level \in PairLevels, fmt \in Contents :
           log_throttled(id, ms, level, fmt)
    \/ \E id \in Keys, ms \in Intervals, level \in PairLevels, content \in Contents :
           log_throttled_hpp(id, level, ms, content)

SpecPair == InitPair /\ [][NextPair]_vars

\* ------------------------------------------------------------------------
\* Properties
\* ------------------------------------------------------------------------

LogOps == {"log", "log_hpp"}
ThrottledOps == {"log_throttled", "log_throttled_hpp"}

\* throttle_ms * 1000 as a true microsecond count: no 32-bit wrap.
TrueMicros(throttle_ms) == MulSmall64(U64(throttle_ms), 1000)

\* The text occurs in the line.
Contains(line, text) ==
    \E i \in 1 .. (Len(line) - Len(text) + 1) :
        SubSeq(line, i, i + Len(text) - 1) = text

\* The call found the engine open and its level at or above the threshold.
Gated(call) == call.pre.isOpen /\ call.level >= call.pre.logLevel

\* The reading a log_throttled call compared, and the value it compared to.
NowOf(call) == call.reads[1]
LastOf(call) == MapGet(call.pre.throttleMap, call.id)

\* C1: printFunc is invoked by a call only if the engine was open, the
\* call's level was at or above the threshold and, for log_throttled, the
\* clock reading minus the key's stored time (absent = 0) exceeded the
\* interval in microseconds.
C1_SinkOnlyWhenGated ==
    (lastCall.op # "none" /\ lastCall.sink # <<>>) =>
        /\ lastCall.op \in LogOps \cup ThrottledOps
        /\ Gated(lastCall)
        /\ lastCall.op \in ThrottledOps =>
               Gt64(Sub64(NowOf(lastCall), LastOf(lastCall)),
                    TrueMicros(lastCall.ms))

\* C2: on an engine that is not open, log and log_throttled calls of any
\* severity never invoke printFunc, never read the clock and leave the
\* throttle table as it was.
C2_ClosedEngineIsInert ==
    (lastCall.op \in LogOps \cup ThrottledOps /\ ~lastCall.pre.isOpen) =>
        /\ lastCall.sink = <<>>
        /\ lastCall.reads = <<>>
        /\ throttleMap = lastCall.pre.throttleMap

\* C2's case: a log_throttled call at the highest severity on an engine
\* that was open before (its table has an entry) and is closed now.
C2_Witness ==
    /\ lastCall.op = "log_throttled"
    /\ ~lastCall.pre.isOpen
    /\ lastCall.level = DEBUG
    /\ lastCall.pre.throttleMap # <<>>

\* C3: on an open engine with threshold b, a log call of a lower severity a
\* never reaches printFunc, and a log call of severity b reaches it exactly
\* once, with a line containing the message.
C3_ThresholdGate ==
    (/\ lastCall.op \in LogOps
     /\ lastCall.pre.isOpen
     /\ lastCall.pre.logLevel \in {INFO, WARNING, ERROR, DEBUG}) =>
        /\ lastCall.level < lastCall.pre.logLevel => lastCall.sink = <<>>
        /\ lastCall.level = lastCall.pre.logLevel =>
               /\ Len(lastCall.sink) = 1
               /\ Contains(lastCall.sink[1], lastCall.content)

\* C3's case: threshold ERROR, a log call at ERROR has reached printFunc.
C3_Witness ==
    /\ lastCall.op = "log"
    /\ lastCall.pre.isOpen
    /\ lastCall.pre.logLevel = ERROR
    /\ lastCall.level = ERROR
    /\ Len(lastCall.sink) = 1

\* C4: after an accepted emission for key k at t0, a passing log_throttled
\* call for k with interval I >= 1 ms at t0 + I/2 ms never reaches printFunc,
\* and one at t0 + 2I ms reaches it exactly once and sets the entry of k to
\* t0 + 2I ms.
C4_WindowFromEmission ==
    (/\ lastCall.op \in ThrottledOps
     /\ Gated(lastCall)
     /\ lastCall.ms >= 1
     /\ lastCall.id \in DOMAIN lastCall.pre.lastEmit) =>
        LET t0 == lastCall.pre.lastEmit[lastCall.id]
            half == Add64(t0, MulSmall64(U64(lastCall.ms), 500))
            twice == Add64(t0, MulSmall64(U64(lastCall.ms), 2000))
        IN  /\ NowOf(lastCall) = half => lastCall.sink = <<>>
            /\ NowOf(lastCall) = twice =>
                   /\ Len(lastCall.sink) = 1
                   /\ MapGet(throttleMap, lastCall.id) = twice

\* Two log_throttled calls in a row with the same key and interval, both
\* finding the engine open and their level passing, the first finding the
\* key absent from the table.
BackToBack ==
    /\ prevCall.op \in ThrottledOps
    /\ lastCall.op \in ThrottledOps
    /\ lastCall.id = prevCall.id
    /\ lastCall.ms = prevCall.ms
    /\ Gated(prevCall)
    /\ Gated(lastCall)
    /\ prevCall.id \notin DOMAIN prevCall.pre.throttleMap

\* printFunc was invoked exactly once by the two calls, by the first, with
\* the first call's content.
OnceWithFirstContent ==
    /\ Len(prevCall.sink) = 1
    /\ lastCall.sink = <<>>
    /\ Contains(prevCall.sink[1], prevCall.content)
    /\ lastCall.content # prevCall.content =>
           ~Contains(prevCall.sink[1], lastCall.content)

SuppressedByInterval ==
    /\ lastCall.op \in ThrottledOps
    /\ Gated(lastCall)
    /\ Len(lastCall.reads) = 1
    /\ lastCall.sink = <<>>

\* C6: a log_throttled call suppressed by the interval leaves every key's
\* stored time (absent = 0) as it was, and adds no key but its own.
C6_SuppressedKeepsWindow ==
    SuppressedByInterval =>
        /\ \A k \in Keys :
               MapGet(throttleMap, k) = MapGet(lastCall.pre.throttleMap, k)
        /\ DOMAIN throttleMap \subseteq
               DOMAIN lastCall.pre.throttleMap \cup {lastCall.id}

\* C6's case: a suppressed attempt at a reading later than the stored time
\* of its key, which is that of an earlier emission.
C6_Witness ==
    /\ SuppressedByInterval
    /\ lastCall.id \in DOMAIN lastCall.pre.lastEmit
    /\ LastOf(lastCall) = lastCall.pre.lastEmit[lastCall.id]
    /\ Gt64(NowOf(lastCall), LastOf(lastCall))
    /\ MapGet(throttleMap, lastCall.id) = LastOf(lastCall)

\* C7: a log_throttled call that passes the open and level tests reaches
\* printFunc exactly when now - last exceeds the true product
\* throttle_ms * 1000.
C7_TrueMicrosecondCompare ==
    (lastCall.op \in ThrottledOps /\ Gated(lastCall)) =>
        (lastCall.sink # <<>> <=>
             Gt64(Sub64(NowOf(lastCall), LastOf(lastCall)),
                  TrueMicros(lastCall.ms)))

\* C8: open() on an open engine does not call openFunc and returns true;
\* on a closed engine it calls openFunc once, isOpen becomes its result and
\* that result is returned.
C8_OpenIdempotent ==
    lastCall.op = "open" =>
        /\ lastCall.pre.isOpen =>
               /\ lastCall.hooks = <<>>
               /\ lastCall.ret = TRUE
               /\ isOpen = TRUE
        /\ ~lastCall.pre.isOpen =>
               /\ Len(lastCall.hooks) = 1
               /\ isOpen = lastCall.hooks[1]
               /\ lastCall.ret = lastCall.hooks[1]

\* C8's cases: open() on an open engine, and a failed open().
C8_Witness ==
    /\ lastCall.op = "open"
    /\ lastCall.pre.isOpen
    /\ lastCall.hooks = <<>>
    /\ lastCall.ret = TRUE

C8_WitnessFailed ==
    /\ lastCall.op = "open"
    /\ lastCall.hooks = <<FALSE>>
    /\ ~isOpen

\* C9: close() calls closeFunc exactly once in every state, returns its
\* result and sets isOpen to the negation of it; after a close() that
\* returned false the engine is open and a passing log call that follows
\* reaches printFunc.
C9_CloseFollowsHook ==
    /\ lastCall.op = "close" =>
           /\ Len(lastCall.hooks) = 1
           /\ lastCall.ret = lastCall.hooks[1]
           /\ isOpen = ~lastCall.hooks[1]
    /\ (/\ prevCall.op = "close"
        /\ prevCall.ret = FALSE
        /\ lastCall.op \in LogOps
        /\ lastCall.level >= lastCall.pre.logLevel) =>
           /\ lastCall.pre.isOpen
           /\ Len(lastCall.sink) = 1

\* C9's case: a close() of an open engine returned false and the log call
\* after it has reached printFunc.
C9_Witness ==
    /\ prevCall.op = "close"
    /\ prevCall.pre.isOpen
    /\ prevCall.ret = FALSE
    /\ lastCall.op \in LogOps
    /\ Len(lastCall.sink) = 1

\* C10: the destructor calls closeFunc exactly once when isOpen is true and
\* not at all when it is false.
C10_DestructorCloses ==
    lastCall.op = "destructor" =>
        /\ Len(lastCall.hooks) = (IF lastCall.pre.isOpen THEN 1 ELSE 0)
        /\ ~alive

\* C10's case: an engine that has logged is destroyed while open.
C10_Witness ==
    /\ lastCall.op = "destructor"
    /\ lastCall.pre.isOpen
    /\ lastCall.pre.throttleMap # <<>>
    /\ Len(lastCall.hooks) = 1

\* A call of log or log_throttled on an open engine whose threshold is NONE.
AtThresholdNone ==
    /\ lastCall.op \in LogOps \cup ThrottledOps
    /\ lastCall.pre.isOpen
    /\ lastCall.pre.logLevel = NONE

\* C11: with the threshold at NONE on an open engine no log or log_throttled
\* call reaches printFunc, whatever level the call passes.
C11_NoneSuppressesAll == AtThresholdNone => lastCall.sink = <<>>

\* What the gate does at the threshold NONE: a call whose level is INFO,
\* WARNING, ERROR or DEBUG is silent, a log call that passes NONE as its own
\* level reaches printFunc.
NoneSuppressesLevels ==
    AtThresholdNone =>
        /\ lastCall.level < NONE => lastCall.sink = <<>>
        /\ (lastCall.level = NONE /\ lastCall.op \in LogOps) =>
               Len(lastCall.sink) = 1

\* A call of the header's log_throttled at DEBUG, its interval elapsed, is
\* silent on an open engine whose threshold is NONE.
NoneSuppressesDebug ==
    /\ AtThresholdNone
    /\ lastCall.op = "log_throttled_hpp"
    /\ lastCall.level = DEBUG
    /\ Gt64(Sub64(NowOf(lastCall), LastOf(lastCall)), TrueMicros(lastCall.ms))
    /\ lastCall.sink = <<>>

\* ------------------------------------------------------------------------
\* Call-site keys
\* ------------------------------------------------------------------------

\* The call sites the EMBDLID macro is expanded at.
Files == {<<"a">>, <<"a", "1">>, <<"b">>}
Lines == {1, 2, 12, 21}

\* std::to_string(line): the decimal digits of a positive line number.
to_string(line) == Decimal64(U64(line))

\* The string unique_id hands to the hash: file + std::to_string(line).
HashInput(file, line) == file \o to_string(line)

\* The character codes of the characters of Files and of the digits.
CharCode(c) ==
    CASE c = "a" -> 97
      [] c = "b" -> 98
      [] OTHER -> 48 + (CHOOSE d \in 0 .. 9 : DigitChar(d) = c)

\* std::hash<std::string>: implementation-defined; a multiplicative string
\* hash over the character codes stands for it.
HashMod == 65521
RECURSIVE Hash(_)
Hash(s) ==
    IF s = <<>> THEN 5381
    ELSE (Hash(SubSeq(s, 1, Len(s) - 1)) * 33 + CharCode(s[Len(s)])) % HashMod

\* size_t EmbedLog::unique_id(const std::string& file, int line)
unique_id(file, line) == Hash(HashInput(file, line))

\* One expansion of EMBDLID at (file, line): the key, and the string that
\* was hashed to give it.
EMBDLID(file, line) ==
    /\ Ready
    /\ lastCall' = [op |-> "unique_id", file |-> file, line |-> line,
                    input |-> HashInput(file, line),
                    ret |-> unique_id(file, line)]
    /\ UNCHANGED <<isOpen, logLevel, throttleMap, name, format, openedOk,
                   clock, alive, lastEmit, prevCall>>

InitId == Init /\ logLevel = INFO

NextId ==
    \/ ReturnKeep
    \/ \E file \in Files, line \in Lines : EMBDLID(file, line)

SpecId == InitId /\ [][NextId]_vars

\* Two keys have been derived, one after the other.
TwoKeys == prevCall.op = "unique_id" /\ lastCall.op = "unique_id"
SameSite == prevCall.file = lastCall.file /\ prevCall.line = lastCall.line

\* C12: unique_id is a function of (file, line): equal pairs give equal
\* keys, and different pairs give the hash different strings, so that their
\* keys are equal only when the hash collides.
C12_DistinctSitesDistinctInputs ==
    TwoKeys =>
        /\ SameSite => prevCall.ret = lastCall.ret
        /\ ~SameSite => prevCall.input # lastCall.input

\* ------------------------------------------------------------------------
\* Rendering: print() on its own
\* ------------------------------------------------------------------------

\* days, hours, minutes, seconds and microseconds as one microsecond count.
Micros(d, h, m, s, u) ==
    LET hrs == Add64(MulSmall64(d, 24), U64(h))
        mins == Add64(MulSmall64(hrs, 60), U64(m))
        secs == Add64(MulSmall64(mins, 60), U64(s))
    IN  Add64(MulSmall64(MulSmall64(secs, 1000), 1000), U64(u))

\* The largest uint64_t.
Max64 == <<Base - 1, Base - 1, Base - 1, Base - 1>>

\* 3725000001: 1 h 2 min 5 s and 1 microsecond.
ExampleMicros == Micros(Zero64, 1, 2, 5, 1)

\* The readings print() is given: around each carry of the fields, the
\* example, whole days and the ends of the range.
RenderClockValues ==
    { Zero64, U64(1), U64(999999), U64(1000000), U64(59999999),
      Micros(Zero64, 0, 59, 59, 999999), Micros(Zero64, 1, 0, 0, 0),
      ExampleMicros,
      Micros(Zero64, 23, 59, 59, 999999), Micros(U64(1), 0, 0, 0, 0),
      Micros(U64(3), 4, 5, 6, 7), Micros(U64(9), 23, 59, 59, 999999),
      Micros(U64(10), 0, 0, 0, 0), Micros(U64(123), 1, 2, 3, 4), Max64 }

Boom == <<"b", "o", "o", "m">>
RenderMessages == {Boom, <<"a">>}

\* "%D %H %M %S %U"
FieldsTemplate ==
    <<"%", "D", " ", "%", "H", " ", "%", "M", " ", "%", "S", " ", "%", "U">>

RenderTemplates ==
    Templates \cup
    { FieldsTemplate,
      <<"%", "D">>,
      <<"a", "%", "Q", "b", "%", "T">>,
      <<"x", "%", "%", "T">>,
      <<"%", "Q", "%", "q">>,
      <<"n", "o", " ", "t", "o", "k", "e", "n">>,
      <<"%", "T", "%">>,
      <<"1", "0", "0", "%">> }

\* An engine built with one of the templates.
InitRender ==
    /\ isOpen = FALSE
    /\ logLevel = INFO
    /\ throttleMap = <<>>
    /\ name \in Names
    /\ format \in RenderTemplates
    /\ clock = Zero64
    /\ alive = TRUE
    /\ lastEmit = <<>>
    /\ lastCall = NoCall
    /\ prevCall = NoCall
    /\ openedOk = FALSE

\* One call of print(level, message), the clock returning ts.
print_call(level, message, ts) ==
    /\ Ready
    /\ Le64(clock, ts)
    /\ print("print", level, NoKey, NoMs, message, message, <<>>, ts)
    /\ UNCHANGED <<throttleMap, lastEmit>>

NextRender ==
    \/ Return
    \/ \E level \in LogLevel, message \in RenderMessages,
          ts \in RenderClockValues :
           print_call(level, message, ts)

SpecRender == InitRender /\ [][NextRender]_vars

\* The value a decimal numeral denotes, modulo 2^64.
RECURSIVE ParseDecimal(_)
ParseDecimal(digits) ==
    IF digits = <<>> THEN Zero64
    ELSE Add64(MulSmall64(ParseDecimal(SubSeq(digits, 1, Len(digits) - 1)), 10),
               U64(CHOOSE d \in 0 .. 9 : DigitChar(d) = digits[Len(digits)]))

\* The k-th of the words of a line, the words ending at a space or at the
\* line terminator.
RECURSIVE Word(_, _)
Word(line, k) ==
    LET end == CHOOSE i \in 1 .. Len(line) :
                   /\ line[i] \in {" ", NL}
                   /\ \A j \in 1 .. (i - 1) : line[j] \notin {" ", NL}
    IN  IF k = 1 THEN SubSeq(line, 1, end - 1)
        ELSE Word(SubSeq(line, end + 1, Len(line)), k - 1)

\* A 64-bit value that fits one limb, as an integer.
Small(x) == x[1]
IsSmall(x) == x[2] = 0 /\ x[3] = 0 /\ x[4] = 0

\* "[01:02:05.000001 dev ERROR] boom" and one line terminator.
ExampleLine ==
    <<"[", "0", "1", ":", "0", "2", ":", "0", "5", ".",
      "0", "0", "0", "0", "0", "1", " ", "d", "e", "v", " ",
      "E", "R", "R", "O", "R", "]", " ", "b", "o", "o", "m", NL>>

\* C13: for every reading u the fields print() renders under %D %H %M %S %U
\* satisfy H in 0..23, M in 0..59, S in 0..59, U in 0..999999,
\* D = floor(total hours / 24) and D days + H h + M min + S s + U us = u;
\* and u = 3725000001 under "[%H:%M:%S.%U %N %L] %T" with name "dev", level
\* ERROR and message "boom" renders "[01:02:05.000001 dev ERROR] boom" and
\* exactly one line terminator.
C13_FieldsRecomposeReading ==
    lastCall.op = "print" =>
        LET u == lastCall.reads[1]
            line == lastCall.sink[1]
        IN  /\ format = FieldsTemplate =>
                LET D == ParseDecimal(Word(line, 1))
                    H == ParseDecimal(Word(line, 2))
                    M == ParseDecimal(Word(line, 3))
                    S == ParseDecimal(Word(line, 4))
                    U == ParseDecimal(Word(line, 5))
                IN  /\ IsSmall(H) /\ Small(H) \in 0 .. 23
                    /\ IsSmall(M) /\ Small(M) \in 0 .. 59
                    /\ IsSmall(S) /\ Small(S) \in 0 .. 59
                    /\ Le64(U, U64(999999))
                    /\ D = DivSmall64(DivSmall64(totalSeconds(u), 3600), 24)
                    /\ Add64(Micros(D, Small(H), Small(M), Small(S), 0), U) = u
            /\ (/\ u = ExampleMicros
                /\ format \in Templates
                /\ name = <<"d", "e", "v">>
                /\ lastCall.level = ERROR
                /\ lastCall.content = Boom) => line = ExampleLine

\* C13's case: the example has been rendered.
C13_Witness ==
    /\ lastCall.op = "print"
    /\ lastCall.reads[1] = ExampleMicros
    /\ format \in Templates
    /\ lastCall.level = ERROR
    /\ lastCall.content = Boom
    /\ lastCall.sink[1] = ExampleLine

\* The fields of a reading of more than three days have been rendered under
\* "%D %H %M %S %U".
FieldsRendered ==
    /\ lastCall.op = "print"
    /\ lastCall.reads[1] = Micros(U64(3), 4, 5, 6, 7)
    /\ format = FieldsTemplate
    /\ Word(lastCall.sink[1], 5) = <<"0", "0", "0", "0", "0", "7">>

\* A rendering of the template "%D", and the day count of its reading.
DayRendered == lastCall.op = "print" /\ format = <<"%", "D">>
DayCount == DivSmall64(DivSmall64(totalSeconds(lastCall.reads[1]), 3600), 24)

\* C14: %D renders the day count floor(hours / 24) unpadded, a day count
\* below 10 as its single digit.
C14_DaysUnpadded ==
    (DayRendered /\ Le64(DayCount, U64(9))) =>
        lastCall.sink[1] = <<DigitChar(Small(DayCount)), NL>>

\* What print() renders for %D: the day count padded with '0' to two
\* characters, a day count below 10 as "0" and its digit, a larger one as
\* its digits.
DaysPaddedToTwo ==
    DayRendered =>
        lastCall.sink[1] =
            IF Le64(DayCount, U64(9))
            THEN <<"0", DigitChar(Small(DayCount)), NL>>
            ELSE Decimal64(DayCount) \o <<NL>>

\* Three days have been rendered as "03".
ThreeDaysRendered ==
    /\ DayRendered
    /\ DayCount = U64(3)
    /\ lastCall.sink[1] = <<"0", "3", NL>>

\* The letters that make a token with '%'.
TokenLetters == {"D", "H", "M", "S", "U", "N", "L", "T"}

\* The positions from i on at which a '%' opens a pair: a '%' that is not
\* itself the second character of a pair.
RECURSIVE PairStarts(_, _)
PairStarts(template, i) ==
    IF i > Len(template) THEN {}
    ELSE IF template[i] = "%"
         THEN {i} \cup PairStarts(template, i + 2)
         ELSE PairStarts(template, i + 1)

\* The pair at i is a '%' and a character that is not a token letter.
UnknownPair(template, i) ==
    i < Len(template) /\ template[i + 1] \notin TokenLetters

\* C15: a '%' followed by a character outside {D,H,M,S,U,N,L,T} is copied
\* as those two characters, every character that is not part of a token is
\* copied in order, and rendering goes on after the pair: a template whose
\* pairs are all of that kind renders as itself, and one whose last pair,
\* alone, is the token %T at its end renders as the rest of itself and the
\* message.
C15_UnknownTokensCopied ==
    lastCall.op = "print" =>
        LET line == lastCall.sink[1]
            pairs == PairStarts(format, 1)
            n == Len(format)
        IN  /\ (\A i \in pairs : UnknownPair(format, i)) =>
                   line = format \o <<NL>>
            /\ (/\ n - 1 \in pairs
                /\ format[n] = "T"
                /\ \A i \in pairs \ {n - 1} : UnknownPair(format, i)) =>
                   line = SubSeq(format, 1, n - 2) \o lastCall.content \o <<NL>>

\* C15's case: "a%Qb%T" has been rendered with the message "boom".
C15_Witness ==
    /\ lastCall.op = "print"
    /\ format = <<"a", "%", "Q", "b", "%", "T">>
    /\ lastCall.sink[1] = <<"a", "%", "Q", "b">> \o Boom \o <<NL>>

\* "x%%T" has been rendered as itself: the second '%' closes a pair.
PercentPairRendered ==
    /\ lastCall.op = "print"
    /\ format = <<"x", "%", "%", "T">>
    /\ lastCall.sink[1] = <<"x", "%", "%", "T", NL>>

\* The template's last character is a '%' that opens a pair: a lone '%'.
EndsInLonePercent(template) == Len(template) \in PairStarts(template, 1)

\* C17: a template whose last character is a lone '%' renders that '%' and
\* then only the line terminator: the scanner reads no character at or past
\* the template's length, so nothing stands for the missing token letter.
C17_TrailingPercentLiteral ==
    (lastCall.op = "print" /\ EndsInLonePercent(format)) =>
        LET line == lastCall.sink[1]
        IN  /\ Len(line) >= 2
            /\ SubSeq(line, Len(line) - 1, Len(line)) = <<"%", NL>>
            /\ \A i \in 1 .. Len(line) : line[i] # NUL

\* What print() renders for "100%": the '%', the null character found at
\* format[size()], and the line terminator.
TrailingPercentRendered ==
    /\ lastCall.op = "print"
    /\ format = <<"1", "0", "0", "%">>
    /\ lastCall.sink[1] = <<"1", "0", "0", "%", NUL, NL>>

\* The call is one of `ops`, and it wrote its key's entry only if it handed
\* a line to printFunc; below the threshold it did neither and left every
\* key's time (0 for an absent key) as it was.
WritesOnlyWithSink(ops) ==
    lastCall.op \in ops =>
        /\ MapGet(throttleMap, lastCall.id)
               # MapGet(lastCall.pre.throttleMap, lastCall.id) =>
               lastCall.sink # <<>>
        /\ lastCall.level < lastCall.pre.logLevel =>
               /\ lastCall.sink = <<>>
               /\ \A k \in Keys :
                      MapGet(throttleMap, k) = MapGet(lastCall.pre.throttleMap, k)

\* C16: in both log_throttled implementations a key's entry is written only
\* by a call that also hands a line to printFunc; a call whose level is
\* below the threshold neither reaches printFunc nor changes the table.
C16_TableWrittenOnlyWithSink == WritesOnlyWithSink(ThrottledOps)

\* The log_throttled of EmbedLog.cpp alone.
CppWritesOnlyWithSink == WritesOnlyWithSink({"log_throttled"})

\* C18: the engine is open only if some earlier open() call's openFunc
\* returned true, and only then does a log call reach printFunc; close()
\* calls on a never-opened engine whose closeFunc returns false included.
C18_OpenOnlyAfterOpened ==
    /\ isOpen => openedOk
    /\ (lastCall.op \in LogOps \cup ThrottledOps /\ lastCall.sink # <<>>) =>
           openedOk

\* What close() does on an engine that was never opened when closeFunc
\* returns false: the engine is open afterwards.
FailedCloseOpens ==
    (lastCall.op = "close" /\ lastCall.ret = FALSE) => isOpen

\* C19: with a non-decreasing clock every entry of the throttle table is at
\* most the latest clock reading, no operation makes an entry smaller or
\* removes one, and the reading a log_throttled call compares is at least
\* the stored time, so that now - last does not wrap.
C19_EntriesBehindClock ==
    /\ \A k \in DOMAIN throttleMap : Le64(throttleMap[k], clock)
    /\ lastCall.op \in LogOps \cup ThrottledOps =>
           \A k \in DOMAIN lastCall.pre.throttleMap :
               /\ k \in DOMAIN throttleMap
               /\ Le64(lastCall.pre.throttleMap[k], throttleMap[k])
    /\ (lastCall.op \in ThrottledOps /\ lastCall.reads # <<>>) =>
           Le64(LastOf(lastCall), NowOf(lastCall))

\* C19's case: an accepted log_throttled call has raised the entry of a key
\* that was in the table, at a reading beyond the stored time.
C19_Witness ==
    /\ lastCall.op \in ThrottledOps
    /\ lastCall.sink # <<>>
    /\ lastCall.id \in DOMAIN lastCall.pre.throttleMap
    /\ Gt64(lastCall.pre.throttleMap[lastCall.id], Zero64)
    /\ Gt64(throttleMap[lastCall.id], lastCall.pre.throttleMap[lastCall.id])
    /\ throttleMap[lastCall.id] = NowOf(lastCall)

\* C20: a log_throttled call with key k, accepted or suppressed, leaves the
\* entry of every other key as it was, present or absent; and whether a
\* call that got past the open and level tests is accepted is decided by
\* the reading, its own key's stored time and its interval.
C20_KeysIndependent ==
    lastCall.op \in ThrottledOps =>
        /\ \A j \in Keys \ {lastCall.id} :
               /\ j \in DOMAIN throttleMap <=> j \in DOMAIN lastCall.pre.throttleMap
               /\ MapGet(throttleMap, j) = MapGet(lastCall.pre.throttleMap, j)
        /\ Gated(lastCall) =>
               (lastCall.sink # <<>> <=>
                    Gt64(Sub64(NowOf(lastCall), LastOf(lastCall)),
                         Low32(TrueMicros(lastCall.ms))))

\* C20's case: with two keys in the table at different times, a call on one
\* of them is accepted and the other keeps its time.
C20_Witness ==
    /\ lastCall.op \in ThrottledOps
    /\ lastCall.sink # <<>>
    /\ \E j \in Keys \ {lastCall.id} :
           /\ j \in DOMAIN lastCall.pre.throttleMap
           /\ lastCall.id \in DOMAIN lastCall.pre.throttleMap
           /\ Gt64(lastCall.pre.throttleMap[j], Zero64)
           /\ throttleMap[j] = lastCall.pre.throttleMap[j]
           /\ throttleMap[j] # throttleMap[lastCall.id]
           /\ lastCall.pre.throttleMap[j] # lastCall.pre.throttleMap[lastCall.id]

====
